---------------------------- MODULE Spec2Model ----------------------------
(***************************************************************************)
(* A model of freq.py, the shell-history frequency analyser: the two line  *)
(* parsers (zsh and bash), command reduction, alias resolution, the        *)
(* exclusion filter, the date filter, the single-command filter of         *)
(* run_analysis, the correlation tally, the ranking and the parsing of     *)
(* the date expression.                                                    *)
(*                                                                         *)
(* Text is modelled by TLA+ strings, character by character: the Python    *)
(* string methods the program calls (strip, split, find, startswith,       *)
(* isdigit, int, join) are operators that compute what the methods         *)
(* compute.  A record is the pair <<command, timestamp>>.  An optional     *)
(* value is <<>> for None and <<v>> for the value v.                       *)
(***************************************************************************)
EXTENDS Integers, Sequences, FiniteSets, TLC

VARIABLES
    pc,                 \* position of the modelled call
    shell_type,         \* "zsh" or "bash": the parser parse_history dispatches to
    file,               \* the history file: a sequence of lines (without newline)
    idx,                \* number of lines of the file the parser loop has consumed
    full_command,       \* parser argument full_command
    date_filter,        \* parser argument date_filter: None or a (start, end) pair
    command_filter,     \* parser argument command_filter: None or a string
    now,                \* the value datetime.now().timestamp() truncates to
    current_timestamp,  \* parse_bash_history's pending timestamp
    history,            \* the record list being built / passed down the pipeline
    emitted,            \* per consumed line, the records the loop body appended
    resolve_aliases,    \* args.resolve_aliases
    aliases,            \* the alias table load_aliases returned: a function name -> base
    exclude_list,       \* the exclusion list of args.exclude
    cmd_history,        \* the list run_analysis hands to show_command_analysis
    full_cmd,           \* extract_command's argument (its own specification)
    ret,                \* the value returned by the function under study
    target_command,     \* get_command_correlations' target
    window_seconds,     \* get_command_correlations' window
    num_commands,       \* args.number, the limit of the ranking
    date_arg            \* args.date: None or the text of the date expression

vars == <<pc, shell_type, file, idx, full_command, date_filter, command_filter,
          now, current_timestamp, history, emitted, resolve_aliases, aliases,
          exclude_list, cmd_history, full_cmd, ret, target_command,
          window_seconds, num_commands, date_arg>>

(***************************************************************************)
(* Optional values and Python truthiness.                                  *)
(***************************************************************************)
None == <<>>

Some(v) == <<v>>

\* bool(x) of an optional integer: None and 0 are both false
TruthyInt(o) == o # None /\ o[1] # 0

\* bool(x) of an optional string: None and "" are both false
TruthyStr(o) == o # None /\ o[1] # ""

(***************************************************************************)
(* Python string methods.                                                  *)
(***************************************************************************)
Ch(s, i) == SubSeq(s, i, i)

IsSpace(c) == c \in {" ", "\t"}

IsDigitCh(c) == c \in {"0", "1", "2", "3", "4", "5", "6", "7", "8", "9"}

DigitVal(c) ==
    CASE c = "0" -> 0 [] c = "1" -> 1 [] c = "2" -> 2 [] c = "3" -> 3
      [] c = "4" -> 4 [] c = "5" -> 5 [] c = "6" -> 6 [] c = "7" -> 7
      [] c = "8" -> 8 [] c = "9" -> 9

\* s[a:b] with 0-based, end-exclusive Python indices, 0 <= a
Slice(s, a, b) == SubSeq(s, a + 1, b)

\* s[a:]
SliceFrom(s, a) == SubSeq(s, a + 1, Len(s))

RECURSIVE lstrip(_)
lstrip(s) == IF s # "" /\ IsSpace(Head(s)) THEN lstrip(Tail(s)) ELSE s

RECURSIVE rstrip(_)
rstrip(s) ==
    IF s # "" /\ IsSpace(Ch(s, Len(s))) THEN rstrip(SubSeq(s, 1, Len(s) - 1)) ELSE s

\* str.strip()
strip(s) == rstrip(lstrip(s))

\* str.isdigit(): non-empty and every character a digit
isdigit(s) == s # "" /\ \A i \in 1..Len(s) : IsDigitCh(Ch(s, i))

\* str.startswith(p)
startswith(s, p) == Len(p) <= Len(s) /\ SubSeq(s, 1, Len(p)) = p

\* str.endswith(p)
endswith(s, p) == Len(p) <= Len(s) /\ SubSeq(s, Len(s) - Len(p) + 1, Len(s)) = p

\* the 0-based positions at which sub occurs in s
Occurrences(s, sub) ==
    {i \in 0..(Len(s) - Len(sub)) : SubSeq(s, i + 1, i + Len(sub)) = sub}

Min(S) == CHOOSE m \in S : \A n \in S : m <= n

\* str.find(sub): the lowest position, or -1
find(s, sub) == IF Occurrences(s, sub) = {} THEN -1 ELSE Min(Occurrences(s, sub))

\* sub in s
contains(s, sub) == Occurrences(s, sub) # {}

\* int(s) of a string of decimal digits
RECURSIVE int(_)
int(s) == IF s = "" THEN 0 ELSE 10 * int(SubSeq(s, 1, Len(s) - 1)) + DigitVal(Ch(s, Len(s)))

\* the length of the run of non-whitespace characters s starts with
RECURSIVE WordLen(_)
WordLen(s) == IF s = "" \/ IsSpace(Head(s)) THEN 0 ELSE 1 + WordLen(Tail(s))

\* str.split(): the whitespace-delimited tokens, as a sequence of strings
RECURSIVE split(_)
split(s) ==
    LET t == lstrip(s)
        n == WordLen(t)
    IN  IF t = "" THEN <<>> ELSE <<SubSeq(t, 1, n)>> \o split(SliceFrom(t, n))

\* ' '.join(parts)
RECURSIVE join(_)
join(parts) ==
    IF parts = <<>> THEN ""
    ELSE IF Len(parts) = 1 THEN parts[1]
    ELSE parts[1] \o " " \o join(Tail(parts))

(***************************************************************************)
(* extract_command (src/freq.py 211-232).                                  *)
(***************************************************************************)
\* the "for cmd in [...]: if cmd in full_cmd: return cmd" scan, then "malformed"
MalformedScan(text) ==
    IF contains(text, "export") THEN "export"
    ELSE IF contains(text, "echo") THEN "echo"
    ELSE IF contains(text, "set") THEN "set"
    ELSE IF contains(text, "alias") THEN "alias"
    ELSE "malformed"

\* the condition of line 222
IsMalformedToken(first_word) ==
    endswith(first_word, "'") /\ (isdigit(first_word) \/ first_word \in {"35'", "00;35'"})

extract_command(text, full) ==
    IF text = "" THEN ""
    ELSE IF full THEN text
    ELSE LET command_parts == split(text)
         IN  IF command_parts # <<>>
             THEN LET first_word == command_parts[1]
                  IN  IF IsMalformedToken(first_word)
                      THEN IF startswith(text, "export") THEN "export"
                           ELSE MalformedScan(text)
                      ELSE first_word
             ELSE ""

(***************************************************************************)
(* The date and command tests shared by the two parsers.                   *)
(***************************************************************************)
\* lines 127-132 and 185-192: the record is dropped by the early date filter
DateDrops(df, timestamp) ==
    /\ df # None
    /\ \/ TruthyInt(df[1]) /\ timestamp < df[1][1]
       \/ TruthyInt(df[2]) /\ timestamp > df[2][1]

\* lines 155, 198 and 705: command == filter or command starts with filter + " "
MatchesCommand(command, filter) ==
    startswith(command, filter \o " ") \/ command = filter

\* lines 154-156 and 197-200: the record is dropped by the early command filter
CommandDrops(cf, command) == TruthyStr(cf) /\ ~MatchesCommand(command, cf[1])

(***************************************************************************)
(* parse_zsh_history (src/freq.py 109-164).                                *)
(***************************************************************************)
TsDigits == 10

\* r': (\d{10}):' matches at 0-based position i
TsMatchAt(line, i) ==
    /\ i + TsDigits + 3 <= Len(line)
    /\ Slice(line, i, i + 2) = ": "
    /\ isdigit(Slice(line, i + 2, i + 2 + TsDigits))
    /\ Ch(line, i + TsDigits + 3) = ":"

TsMatches(line) == {i \in 0..Len(line) : TsMatchAt(line, i)}

\* the number of digits line holds from 0-based position p on
RECURSIVE DigitRun(_, _)
DigitRun(line, p) ==
    IF p < Len(line) /\ IsDigitCh(Ch(line, p + 1)) THEN 1 + DigitRun(line, p + 1) ELSE 0

\* r': \d{10}:\d+;' matches at 0-based position i
DurMatchAt(line, i) ==
    /\ TsMatchAt(line, i)
    /\ DigitRun(line, i + TsDigits + 3) >= 1
    /\ i + TsDigits + 3 + DigitRun(line, i + TsDigits + 3) + 1 <= Len(line)
    /\ Ch(line, i + TsDigits + 3 + DigitRun(line, i + TsDigits + 3) + 1) = ";"

DurMatches(line) == {i \in 0..Len(line) : DurMatchAt(line, i)}

\* duration_match.end() of the leftmost match
DurMatchEnd(line) ==
    LET i == Min(DurMatches(line))
    IN  i + TsDigits + 3 + DigitRun(line, i + TsDigits + 3) + 1

\* lines 135-146: the command text of a stripped line, None when the line is skipped
ZshCommandText(line) ==
    IF contains(line, ";")
    THEN LET timestamp_end == find(line, ":0;")
         IN  IF timestamp_end # -1
             THEN Some(strip(SliceFrom(line, timestamp_end + 3)))
             ELSE IF DurMatches(line) # {}
                  THEN Some(strip(SliceFrom(line, DurMatchEnd(line))))
                  ELSE None
    ELSE None

\* ZshLoopBody without lines 148-149: a line whose command text is empty is
\* appended with the empty command
ZshLoopBody_KeepsEmpty(raw, full, df, cf) ==
    LET line == strip(raw)
    IN  IF line = "" THEN <<>>
        ELSE IF TsMatches(line) = {} THEN <<>>
        ELSE LET timestamp == int(Slice(line, Min(TsMatches(line)) + 2,
                                        Min(TsMatches(line)) + 2 + TsDigits))
                 text == ZshCommandText(line)
             IN  IF DateDrops(df, timestamp) THEN <<>>
                 ELSE IF text = None THEN <<>>
                 ELSE IF text[1] = "" THEN << <<"", timestamp>> >>
                 ELSE LET command == extract_command(text[1], full)
                      IN  IF command = "" THEN <<>>
                          ELSE IF CommandDrops(cf, command) THEN <<>>
                          ELSE << <<command, timestamp>> >>

\* the body of the loop of lines 114-158: the records one raw line appends
ZshLoopBody(raw, full, df, cf) ==
    LET line == strip(raw)
    IN  IF line = "" THEN <<>>
        ELSE IF TsMatches(line) = {} THEN <<>>
        ELSE LET timestamp == int(Slice(line, Min(TsMatches(line)) + 2,
                                        Min(TsMatches(line)) + 2 + TsDigits))
                 text == ZshCommandText(line)
             IN  IF DateDrops(df, timestamp) THEN <<>>
                 ELSE IF text = None THEN <<>>
                 ELSE IF text[1] = "" THEN <<>>
                 ELSE LET command == extract_command(text[1], full)
                      IN  IF command = "" THEN <<>>
                          ELSE IF CommandDrops(cf, command) THEN <<>>
                          ELSE << <<command, timestamp>> >>

RECURSIVE parse_zsh_history(_, _, _, _)
parse_zsh_history(f, full, df, cf) ==
    IF f = <<>> THEN <<>>
    ELSE ZshLoopBody(Head(f), full, df, cf) \o parse_zsh_history(Tail(f), full, df, cf)

(***************************************************************************)
(* parse_bash_history (src/freq.py 166-209).                               *)
(***************************************************************************)
\* line 177: '#' followed only by digits
IsMarker(line) == startswith(line, "#") /\ Len(line) > 1 /\ isdigit(SliceFrom(line, 1))

\* line 182: the pending timestamp if it is truthy, else the wall clock
EffectiveTimestamp(ct, clock) == IF TruthyInt(ct) THEN ct[1] ELSE clock

\* BashLoopBody without line 199: a line the command filter drops keeps the
\* pending timestamp
BashLoopBody_KeepsPending(ct, raw, full, df, cf, clock) ==
    LET line == strip(raw)
    IN  IF IsMarker(line)
        THEN [records |-> <<>>, current_timestamp |-> Some(int(SliceFrom(line, 1)))]
        ELSE IF line = "" THEN [records |-> <<>>, current_timestamp |-> ct]
        ELSE LET timestamp == EffectiveTimestamp(ct, clock)
                 command == extract_command(line, full)
             IN  IF DateDrops(df, timestamp)
                 THEN [records |-> <<>>, current_timestamp |-> None]
                 ELSE IF command = "" \/ CommandDrops(cf, command)
                 THEN [records |-> <<>>, current_timestamp |-> ct]
                 ELSE [records |-> << <<command, timestamp>> >>,
                       current_timestamp |-> None]

\* the body of the loop of lines 173-203: the records one raw line appends and
\* the pending timestamp it leaves
BashLoopBody(ct, raw, full, df, cf, clock) ==
    LET line == strip(raw)
    IN  IF IsMarker(line)
        THEN [records |-> <<>>, current_timestamp |-> Some(int(SliceFrom(line, 1)))]
        ELSE IF line = "" THEN [records |-> <<>>, current_timestamp |-> ct]
        ELSE LET timestamp == EffectiveTimestamp(ct, clock)
                 command == extract_command(line, full)
             IN  IF DateDrops(df, timestamp)
                 THEN [records |-> <<>>, current_timestamp |-> None]
                 ELSE IF command = ""
                 THEN [records |-> <<>>, current_timestamp |-> ct]
                 ELSE IF CommandDrops(cf, command)
                 THEN [records |-> <<>>, current_timestamp |-> None]
                 ELSE [records |-> << <<command, timestamp>> >>,
                       current_timestamp |-> None]

RECURSIVE BashLoop(_, _, _, _, _, _)
BashLoop(ct, f, full, df, cf, clock) ==
    IF f = <<>> THEN <<>>
    ELSE LET r == BashLoopBody(ct, Head(f), full, df, cf, clock)
         IN  r.records \o BashLoop(r.current_timestamp, Tail(f), full, df, cf, clock)

parse_bash_history(f, full, df, cf, clock) == BashLoop(None, f, full, df, cf, clock)

\* parse_history (src/freq.py 234-244) for the two known shell types
parse_history(f, full, shell, df, cf, clock) ==
    IF shell = "zsh" THEN parse_zsh_history(f, full, df, cf)
    ELSE parse_bash_history(f, full, df, cf, clock)

(***************************************************************************)
(* The inputs of the parser specification.                                 *)
(***************************************************************************)
MaxZshLines == 2

MaxBashLines == 3

\* the line ': T:D;cmd' of a zsh history
ZshLine(T, D, cmd) == ": " \o T \o ":" \o D \o ";" \o cmd

ZshStamps == {"1700000000", "0000172800", "0000086400", "0000000000"}

ZshDurations == {"0", "5", "15"}

ZshCommands == {"ls -la", "git status", "echo a:0;b", "ll\t-a", "ls", " "}

ZshLines ==
    { ZshLine("1700000000", "0", "ls -la"),
      ZshLine("0000172800", "5", "git status"),
      ZshLine("1700000000", "15", "echo a:0;b"),
      ZshLine("0000086400", "0", "ll\t-a"),
      ZshLine("0000000000", "0", "ls"),
      ZshLine("1700000000", "0", " "),
      "",
      "  --amend -m msg",
      "x: 1700000000:0;vim",
      ": 17000000:0;ls",
      ": 1700000000:x;ls" }

\* the marker line '#T' of a bash history
BashMarker(T) == "#" \o T

BashStamps == {"1700000000", "172800", "0"}

BashCommands == {"ls -la", "git status", "# note"}

BashLines ==
    {BashMarker(T) : T \in BashStamps} \cup BashCommands \cup {""}

RECURSIVE SeqsUpTo(_, _)
SeqsUpTo(S, n) ==
    IF n = 0 THEN {<<>>}
    ELSE LET shorter == SeqsUpTo(S, n - 1)
         IN  shorter \cup {Append(q, x) : q \in shorter, x \in S}

\* the window of a single date: local midnight to the next local midnight
OneDay == <<Some(86400), Some(172800)>>

DateFilters ==
    { None,
      OneDay,
      <<OneDay[1], None>>,
      <<None, OneDay[1]>>,
      <<None, Some(0)>> }

CommandFilters == {None, Some("ls"), Some("git")}

Clocks == {1700000999}

(***************************************************************************)
(* The parser specification: one call of parse_history, line by line.      *)
(***************************************************************************)
Idle ==
    /\ resolve_aliases = FALSE
    /\ aliases = <<>>
    /\ exclude_list = <<>>
    /\ cmd_history = <<>>
    /\ full_cmd = ""
    /\ ret = None
    /\ target_command = ""
    /\ window_seconds = 0
    /\ num_commands = 0
    /\ date_arg = None

InitParse ==
    /\ pc = "parse"
    /\ shell_type \in {"zsh", "bash"}
    /\ file \in IF shell_type = "zsh" THEN SeqsUpTo(ZshLines, MaxZshLines)
                ELSE SeqsUpTo(BashLines, MaxBashLines)
    /\ idx = 0
    /\ full_command \in BOOLEAN
    /\ date_filter \in DateFilters
    /\ command_filter \in CommandFilters
    /\ now \in Clocks
    /\ current_timestamp = None
    /\ history = <<>>
    /\ emitted = <<>>
    /\ Idle

\* one iteration of the loop of parse_zsh_history
ParseZshLine ==
    /\ pc = "parse"
    /\ shell_type = "zsh"
    /\ idx < Len(file)
    /\ LET records == ZshLoopBody(file[idx + 1], full_command, date_filter, command_filter)
       IN  /\ history' = history \o records
           /\ emitted' = Append(emitted, records)
    /\ idx' = idx + 1
    /\ UNCHANGED <<pc, shell_type, file, full_command, date_filter, command_filter,
                   now, current_timestamp, resolve_aliases, aliases, exclude_list,
                   cmd_history, full_cmd, ret, target_command, window_seconds,
                   num_commands, date_arg>>

\* one iteration of the loop of parse_bash_history
ParseBashLine ==
    /\ pc = "parse"
    /\ shell_type = "bash"
    /\ idx < Len(file)
    /\ LET r == BashLoopBody(current_timestamp, file[idx + 1], full_command,
                             date_filter, command_filter, now)
       IN  /\ history' = history \o r.records
           /\ emitted' = Append(emitted, r.records)
           /\ current_timestamp' = r.current_timestamp
    /\ idx' = idx + 1
    /\ UNCHANGED <<pc, shell_type, file, full_command, date_filter, command_filter,
                   now, resolve_aliases, aliases, exclude_list, cmd_history,
                   full_cmd, ret, target_command, window_seconds, num_commands, date_arg>>

\* the end of the file: the parser returns history
ParseReturn ==
    /\ pc = "parse"
    /\ idx = Len(file)
    /\ pc' = "parsed"
    /\ ret' = Some(history)
    /\ UNCHANGED <<shell_type, file, idx, full_command, date_filter, command_filter,
                   now, current_timestamp, history, emitted, resolve_aliases,
                   aliases, exclude_list, cmd_history, full_cmd, target_command,
                   window_seconds, num_commands, date_arg>>

NextParse == ParseZshLine \/ ParseBashLine \/ ParseReturn

SpecParse == InitParse /\ [][NextParse]_vars

(***************************************************************************)
(* The post-hoc date filter of main (src/freq.py 676-684), and the date    *)
(* window as the data model words it.                                      *)
(***************************************************************************)
RECURSIVE PostHocDateFilter(_, _, _)
PostHocDateFilter(h, start_time, end_time) ==
    IF h = <<>> THEN <<>>
    ELSE LET timestamp == Head(h)[2]
             rest == PostHocDateFilter(Tail(h), start_time, end_time)
         IN  IF TruthyInt(start_time) /\ timestamp < start_time[1] THEN rest
             ELSE IF TruthyInt(end_time) /\ timestamp > end_time[1] THEN rest
             ELSE <<Head(h)>> \o rest

NoFilters == date_filter = None /\ command_filter = None

(***************************************************************************)
(* Claims about the parsers, checked under SpecParse.                      *)
(***************************************************************************)

\* C1: with no date or command filter, every consumed zsh line ': T:D;cmd'
\* (T ten digits, D one or more digits, cmd non-empty after trimming) made
\* the loop append exactly one record, <<reduction of the trimmed cmd, T>>,
\* whatever ':' and ';' characters cmd holds.
C1_ZshValidLineOneRecord ==
    (shell_type = "zsh" /\ NoFilters) =>
        \A k \in 1..idx : \A T \in ZshStamps, D \in ZshDurations, cmd \in ZshCommands :
            (file[k] = ZshLine(T, D, cmd) /\ strip(cmd) # "") =>
                emitted[k] = << <<extract_command(strip(cmd), full_command), int(T)>> >>

\* C2: with no filters, a bash command line directly after a marker '#T'
\* made the loop append exactly the record <<cmd or its leading token, T>>,
\* for every non-negative T; a command line with no pending marker made it
\* append exactly one record with a non-negative timestamp.
C2_BashMarkerStampsNextLine ==
    (shell_type = "bash" /\ NoFilters) =>
        \A k \in 1..idx :
            file[k] \in BashCommands =>
                LET token == IF full_command THEN file[k] ELSE split(file[k])[1]
                IN  /\ \A T \in BashStamps :
                        (k > 1 /\ file[k - 1] = BashMarker(T)) =>
                            emitted[k] = << <<token, int(T)>> >>
                    /\ (k = 1 \/ file[k - 1] \in BashCommands) =>
                            /\ Len(emitted[k]) = 1
                            /\ emitted[k][1][1] = token
                            /\ emitted[k][1][2] >= 0

\* the last non-blank line before line k, 0 when there is none
PrevNonBlank(k) ==
    LET S == {j \in 1..(k - 1) : strip(file[j]) # ""}
    IN  IF S = {} THEN 0 ELSE CHOOSE j \in S : \A i \in S : i <= j

\* one step of the bash loop moves the pending timestamp as the two-state
\* machine says
C3_Step ==
    (shell_type = "bash" /\ idx' = idx + 1) =>
        LET line == file[idx + 1]
        IN  /\ \A T \in BashStamps :
                line = BashMarker(T) =>
                    current_timestamp' = Some(int(T)) /\ history' = history
            /\ strip(line) = "" =>
                    current_timestamp' = current_timestamp /\ history' = history
            /\ line \in BashCommands =>
                    /\ current_timestamp' = None
                    /\ Len(history') <= Len(history) + 1

\* a record's timestamp is the wall clock or the value of the marker that is
\* the last non-blank line before the record's line
C3_Attach ==
    shell_type = "bash" =>
        \A k \in 1..idx :
            emitted[k] # <<>> =>
                LET j == PrevNonBlank(k)
                    timestamp == emitted[k][1][2]
                IN  \/ timestamp = now
                    \/ /\ j > 0
                       /\ \E T \in BashStamps : file[j] = BashMarker(T) /\ timestamp = int(T)

\* C3: the pending timestamp of parse_bash_history is the machine
\* {NoPending, Pending(T)}: a marker line moves to Pending(T) and emits
\* nothing, a blank line changes nothing, every other line leaves NoPending
\* whether it was emitted or dropped by the date or the command filter; so a
\* marker stamps at most the next command line, and of two consecutive
\* markers only the later can stamp it.
C3_PendingStateMachine == [][C3_Step]_vars /\ []C3_Attach

\* a marker, a blank line and a command line that the command filter dropped
\* have been consumed, and the pending timestamp is cleared
C3_Witness ==
    /\ shell_type = "bash"
    /\ idx = 3
    /\ file[1] = BashMarker("172800")
    /\ file[2] = ""
    /\ file[3] = "git status"
    /\ command_filter = Some("ls")
    /\ emitted[3] = <<>>
    /\ current_timestamp = None

\* C5: parsing with date_filter = (start, end) returns the records that
\* parsing with no date filter returns, less those with timestamp < start
\* (start set) or timestamp > end (end set).
C5_EarlyDateFilterIsPostFilter ==
    (pc = "parsed" /\ date_filter # None) =>
        LET start == date_filter[1]
            end == date_filter[2]
            Keep(r) == /\ (start # None => r[2] >= start[1])
                       /\ (end # None => r[2] <= end[1])
        IN  history = SelectSeq(parse_history(file, full_command, shell_type, None,
                                                  command_filter, now), Keep)

\* the windows whose bounds are each absent or non-zero
PlainWindow(df) == df # None /\ df[1] # Some(0) /\ df[2] # Some(0)

\* C6: the date filter keeps a record if and only if start <= timestamp (start
\* set) and timestamp < end (end set), in the parsers and in the post-hoc
\* filter of main: a record stamped exactly at the end bound is removed.
C6_WindowIsHalfOpen ==
    (pc = "parsed" /\ PlainWindow(date_filter)) =>
        LET start == date_filter[1]
            end == date_filter[2]
            Keep(r) == /\ (start # None => start[1] <= r[2])
                       /\ (end # None => r[2] < end[1])
            unfiltered == parse_history(file, full_command, shell_type, None,
                                        command_filter, now)
        IN  /\ history = SelectSeq(unfiltered, Keep)
            /\ PostHocDateFilter(unfiltered, start, end) = SelectSeq(unfiltered, Keep)

\* the file without its line k
WithoutLine(f, k) == SubSeq(f, 1, k - 1) \o SubSeq(f, k + 1, Len(f))

\* C14: parse_zsh_history emits no record for a non-blank line that does not
\* begin with ': ', ten digits and ':' (a continuation line, or a line where
\* the pattern occurs only after other text), and the records of the whole
\* file are those of the file without that line.
C14_ZshSkipsUnstampedLines ==
    shell_type = "zsh" =>
        \A k \in 1..idx :
            (strip(file[k]) # "" /\ ~TsMatchAt(strip(file[k]), 0)) =>
                /\ emitted[k] = <<>>
                /\ pc = "parsed" =>
                        history = parse_zsh_history(WithoutLine(file, k), full_command,
                                                    date_filter, command_filter)

(***************************************************************************)
(* Alias resolution (src/freq.py 300-301 and 645-661), the exclusion       *)
(* filter (303-314) and the single-command filter of run_analysis          *)
(* (702-706).                                                              *)
(***************************************************************************)
\* resolve_command looking the result up again until no alias applies
RECURSIVE resolve_command_Repeated(_, _)
resolve_command_Repeated(command, table) ==
    IF command \in DOMAIN table /\ table[command] # command
    THEN resolve_command_Repeated(table[command], table)
    ELSE command

\* aliases.get(command, command)
resolve_command(command, table) ==
    IF command \in DOMAIN table THEN table[command] ELSE command

\* lines 648-658: the record one history record resolves to
ResolveRecord(record, table, use_full_commands) ==
    LET command == record[1]
        timestamp == record[2]
    IN  IF use_full_commands
        THEN LET parts == split(command)
             IN  IF parts # <<>>
                 THEN LET resolved_cmd == resolve_command(parts[1], table)
                          full_resolved ==
                              resolved_cmd \o (IF Len(parts) > 1
                                               THEN " " \o join(Tail(parts))
                                               ELSE "")
                      IN  <<full_resolved, timestamp>>
                 ELSE <<command, timestamp>>
        ELSE <<resolve_command(command, table), timestamp>>

\* lines 646-658: resolved_history
ResolveHistory(h, table, use_full_commands) ==
    [k \in 1..Len(h) |-> ResolveRecord(h[k], table, use_full_commands)]

\* lines 640-661: history after the alias stage
AliasStage(h, resolve, table, use_full_commands) ==
    IF resolve /\ DOMAIN table # {} THEN ResolveHistory(h, table, use_full_commands)
    ELSE h

\* set(exclude_list)
Range(q) == {q[k] : k \in 1..Len(q)}

\* line 310: command.split()[0] if command else command
BaseCmd(command) == IF command # "" THEN split(command)[1] ELSE command

\* filter_commands testing the whole command instead of its leading token
RECURSIVE filter_commands_WholeCommand(_, _)
filter_commands_WholeCommand(h, exclude) ==
    IF exclude = <<>> THEN h
    ELSE IF h = <<>> THEN <<>>
    ELSE (IF Head(h)[1] \notin Range(exclude) THEN <<Head(h)>> ELSE <<>>)
         \o filter_commands_WholeCommand(Tail(h), exclude)

RECURSIVE filter_commands(_, _)
filter_commands(h, exclude) ==
    IF exclude = <<>> THEN h
    ELSE IF h = <<>> THEN <<>>
    ELSE (IF BaseCmd(Head(h)[1]) \notin Range(exclude) THEN <<Head(h)>> ELSE <<>>)
         \o filter_commands(Tail(h), exclude)

\* lines 664-667: history after the exclusion stage ("if args.exclude")
ExcludeStage(h, exclude) == IF exclude # <<>> THEN filter_commands(h, exclude) ELSE h

\* lines 703-706: cmd_history
RECURSIVE CmdHistory(_, _)
CmdHistory(h, command) ==
    IF h = <<>> THEN <<>>
    ELSE (IF MatchesCommand(Head(h)[1], command) THEN <<Head(h)>> ELSE <<>>)
         \o CmdHistory(Tail(h), command)

(***************************************************************************)
(* The pipeline specification: one run of main from parse_history to       *)
(* run_analysis.                                                           *)
(***************************************************************************)
MaxPipeLines == 2

PipeZshLines ==
    { ZshLine("1700000000", "0", "ls -la"),
      ZshLine("0000172800", "0", "ll\t-a"),
      ZshLine("0000086400", "5", "git  status"),
      ZshLine("1700000000", "0", "ls"),
      ZshLine("0000000000", "0", " ") }

PipeBashLines == {BashMarker("172800"), "ls -la", "ll -a", "git  status", ""}

PipeDateFilters == {None, <<OneDay[1], None>>}

AliasTables ==
    { <<>>,
      [n \in {"ll"} |-> "ls"],
      [n \in {"ll", "ls"} |-> IF n = "ll" THEN "ls" ELSE "exa"] }

ExcludeLists == {<<>>, <<"ls">>, <<"git", "ll">>}

Init ==
    /\ pc = "parse"
    /\ shell_type \in {"zsh", "bash"}
    /\ file \in IF shell_type = "zsh" THEN SeqsUpTo(PipeZshLines, MaxPipeLines)
                ELSE SeqsUpTo(PipeBashLines, MaxPipeLines)
    /\ idx = 0
    /\ command_filter \in CommandFilters
    /\ full_command = TruthyStr(command_filter)
    /\ date_filter \in PipeDateFilters
    /\ now \in Clocks
    /\ current_timestamp = None
    /\ history = <<>>
    /\ emitted = <<>>
    /\ resolve_aliases \in BOOLEAN
    /\ aliases \in AliasTables
    /\ exclude_list \in ExcludeLists
    /\ cmd_history = <<>>
    /\ full_cmd = ""
    /\ ret = None
    /\ target_command = ""
    /\ window_seconds = 0
    /\ num_commands = 0
    /\ date_arg = None

\* lines 627-632: parse_history, and the return on an empty history
Parse ==
    /\ pc = "parse"
    /\ history' = parse_history(file, full_command, shell_type, date_filter,
                                command_filter, now)
    /\ pc' = IF history' = <<>> THEN "returned" ELSE "loaded"
    /\ idx' = Len(file)
    /\ UNCHANGED <<shell_type, file, full_command, date_filter, command_filter, now,
                   current_timestamp, emitted, resolve_aliases, aliases,
                   exclude_list, cmd_history, full_cmd, ret, target_command,
                   window_seconds, num_commands, date_arg>>

\* lines 640-661
ResolveAliases ==
    /\ pc = "loaded"
    /\ history' = AliasStage(history, resolve_aliases, aliases, full_command)
    /\ pc' = "resolved"
    /\ UNCHANGED <<shell_type, file, idx, full_command, date_filter, command_filter,
                   now, current_timestamp, emitted, resolve_aliases, aliases,
                   exclude_list, cmd_history, full_cmd, ret, target_command,
                   window_seconds, num_commands, date_arg>>

\* lines 664-669
Exclude ==
    /\ pc = "resolved"
    /\ history' = ExcludeStage(history, exclude_list)
    /\ pc' = "excluded"
    /\ UNCHANGED <<shell_type, file, idx, full_command, date_filter, command_filter,
                   now, current_timestamp, emitted, resolve_aliases, aliases,
                   exclude_list, cmd_history, full_cmd, ret, target_command,
                   window_seconds, num_commands, date_arg>>

\* lines 701-707: run_analysis in single-command mode builds cmd_history
RunAnalysis ==
    /\ pc = "excluded"
    /\ cmd_history' = IF TruthyStr(command_filter)
                      THEN CmdHistory(history, command_filter[1])
                      ELSE <<>>
    /\ pc' = "done"
    /\ UNCHANGED <<shell_type, file, idx, full_command, date_filter, command_filter,
                   now, current_timestamp, history, emitted, resolve_aliases,
                   aliases, exclude_list, full_cmd, ret, target_command,
                   window_seconds, num_commands, date_arg>>

Next == Parse \/ ResolveAliases \/ Exclude \/ RunAnalysis

Spec == Init /\ [][Next]_vars

(***************************************************************************)
(* Claims about the pipeline, checked under Spec.                          *)
(***************************************************************************)

\* what main hands to show_command_analysis when the parser is given no
\* command filter and only the filter of run_analysis is applied
LateFilterOnly ==
    LET parsed == parse_history(file, full_command, shell_type, date_filter, None, now)
        resolved == AliasStage(parsed, resolve_aliases, aliases, full_command)
        excluded == ExcludeStage(resolved, exclude_list)
    IN  CmdHistory(excluded, command_filter[1])

\* C4: the early command filter of the parser is only an optimization: in
\* every configuration the records handed to the single-command analysis are
\* the ones handed to it when the parser filters nothing and run_analysis
\* alone applies the command filter.
C4_EarlyCommandFilterIsOptimization ==
    (TruthyStr(command_filter) /\ pc \in {"done", "returned"}) =>
        cmd_history = LateFilterOnly

\* a HistoryRecord as the data model words it
ValidRecord(r) == r[1] # "" /\ r[2] \in Nat

\* C13: every record at every stage of the pipeline (returned by
\* parse_zsh_history or parse_bash_history, after alias resolution, after the
\* exclusion filter, after the date filter, in the single-command selection)
\* has a non-empty command and a timestamp that is a non-negative integer.
C13_RecordsAreValid ==
    /\ \A k \in 1..Len(history) : ValidRecord(history[k])
    /\ \A k \in 1..Len(cmd_history) : ValidRecord(cmd_history[k])
    /\ date_filter # None =>
            LET filtered == PostHocDateFilter(history, date_filter[1], date_filter[2])
            IN  \A k \in 1..Len(filtered) : ValidRecord(filtered[k])

\* a zsh line with an empty command was dropped by the parser, and the record
\* of the other line has gone through alias resolution and the exclusion
\* filter
C13_Witness ==
    /\ pc = "excluded"
    /\ shell_type = "zsh"
    /\ file = <<ZshLine("0000000000", "0", " "), ZshLine("0000172800", "0", "ll\t-a")>>
    /\ resolve_aliases
    /\ aliases = [n \in {"ll"} |-> "ls"]
    /\ exclude_list = <<"git", "ll">>
    /\ history = << <<"ls", 172800>> >>

(***************************************************************************)
(* The stage specification: filter_commands and the alias resolution loop, *)
(* each called on a record sequence drawn from a bounded set.              *)
(***************************************************************************)
MaxHistory == 3

StageStamps == {5, 172800}

FullCommands == {"ls -la", "git  status", "ll\t-a  -b", "lsof"}

ReducedCommands == {"ls", "git", "ll", "lsof"}

StageRecords(full) ==
    {<<c, t>> : c \in (IF full THEN FullCommands ELSE ReducedCommands), t \in StageStamps}

InitStages ==
    /\ pc = "call"
    /\ full_command \in BOOLEAN
    /\ history \in SeqsUpTo(StageRecords(full_command), MaxHistory)
    /\ aliases \in AliasTables \ {<<>>}
    /\ exclude_list \in ExcludeLists
    /\ shell_type = ""
    /\ file = <<>>
    /\ idx = 0
    /\ date_filter = None
    /\ command_filter = None
    /\ now = 0
    /\ current_timestamp = None
    /\ emitted = <<>>
    /\ resolve_aliases = TRUE
    /\ cmd_history = <<>>
    /\ full_cmd = ""
    /\ ret = None
    /\ target_command = ""
    /\ window_seconds = 0
    /\ num_commands = 0
    /\ date_arg = None

\* a call filter_commands(history, exclude_list)
CallFilterCommands ==
    /\ pc = "call"
    /\ ret' = Some(filter_commands(history, exclude_list))
    /\ pc' = "filtered"
    /\ UNCHANGED <<shell_type, file, idx, full_command, date_filter, command_filter,
                   now, current_timestamp, history, emitted, resolve_aliases,
                   aliases, exclude_list, cmd_history, full_cmd, target_command,
                   window_seconds, num_commands, date_arg>>

\* the resolution loop of main on history, with a non-empty alias table
CallResolve ==
    /\ pc = "call"
    /\ ret' = Some(ResolveHistory(history, aliases, full_command))
    /\ pc' = "resolved"
    /\ UNCHANGED <<shell_type, file, idx, full_command, date_filter, command_filter,
                   now, current_timestamp, history, emitted, resolve_aliases,
                   aliases, exclude_list, cmd_history, full_cmd, target_command,
                   window_seconds, num_commands, date_arg>>

NextStages == CallFilterCommands \/ CallResolve

SpecStages == InitStages /\ [][NextStages]_vars

\* C8: filter_commands returns exactly the subsequence of the records whose
\* leading whitespace-delimited token is not in the exclusion list, in
\* reduced and in full-command mode: order, command text and timestamp of
\* the survivors unchanged, nothing added.
C8_FilterCommandsIsSubsequence ==
    pc = "filtered" =>
        LET Survives(r) == split(r[1])[1] \notin Range(exclude_list)
        IN  ret[1] = SelectSeq(history, Survives)

\* in full-command mode one record was removed between two that survive
C8_Witness ==
    /\ pc = "filtered"
    /\ full_command
    /\ exclude_list = <<"ls">>
    /\ history = << <<"lsof", 5>>, <<"ls -la", 172800>>, <<"git  status", 5>> >>
    /\ ret[1] = << <<"lsof", 5>>, <<"git  status", 5>> >>

\* C10: alias resolution rewrites only the leading token: same length and
\* order, timestamps kept, the leading token replaced by one table lookup
\* with identity fallback, and in full-command mode the other tokens kept
\* in order and joined by single spaces.
C10_AliasRewritesLeadingToken ==
    pc = "resolved" =>
        LET out == ret[1]
            Lookup(token) == IF token \in DOMAIN aliases THEN aliases[token] ELSE token
        IN  /\ Len(out) = Len(history)
            /\ \A k \in 1..Len(history) :
                LET tokens == split(history[k][1])
                IN  /\ out[k][2] = history[k][2]
                    /\ IF full_command
                       THEN /\ split(out[k][1]) = <<Lookup(tokens[1])>> \o Tail(tokens)
                            /\ out[k][1] = join(split(out[k][1]))
                       ELSE out[k][1] = Lookup(history[k][1])

\* a full-command record whose leading token is an alias of an alias was
\* resolved one step, its arguments rejoined by single spaces
C10_Witness ==
    /\ pc = "resolved"
    /\ full_command
    /\ "ls" \in DOMAIN aliases
    /\ history = << <<"ll\t-a  -b", 5>>, <<"lsof", 172800>> >>
    /\ ret[1] = << <<"ls -a -b", 5>>, <<"lsof", 172800>> >>

(***************************************************************************)
(* The reduction specification: extract_command called on raw texts.       *)
(***************************************************************************)
FirstTokens == {"echo", "ls", "export", "12'", "7'", "35'", "00;35'", "x'"}

TokenRests == {"", " hello", " alias x=1", " export A=1", "\techo reset", " unset y", " -la  "}

RawTexts == {first \o rest : first \in FirstTokens, rest \in TokenRests}

InitExtract ==
    /\ pc = "call"
    /\ full_cmd \in RawTexts
    /\ full_command \in BOOLEAN
    /\ shell_type = ""
    /\ file = <<>>
    /\ idx = 0
    /\ date_filter = None
    /\ command_filter = None
    /\ now = 0
    /\ current_timestamp = None
    /\ history = <<>>
    /\ emitted = <<>>
    /\ resolve_aliases = FALSE
    /\ aliases = <<>>
    /\ exclude_list = <<>>
    /\ cmd_history = <<>>
    /\ ret = None
    /\ target_command = ""
    /\ window_seconds = 0
    /\ num_commands = 0
    /\ date_arg = None

\* a call extract_command(full_cmd, full_command)
CallExtract ==
    /\ pc = "call"
    /\ ret' = Some(extract_command(full_cmd, full_command))
    /\ pc' = "extracted"
    /\ UNCHANGED <<shell_type, file, idx, full_command, date_filter, command_filter,
                   now, current_timestamp, history, emitted, resolve_aliases,
                   aliases, exclude_list, cmd_history, full_cmd, target_command,
                   window_seconds, num_commands, date_arg>>

NextExtract == CallExtract

SpecExtract == InitExtract /\ [][NextExtract]_vars

\* C9: in reduced mode extract_command returns the first token, except that
\* a first token ending with a quote that is a run of digits followed by the
\* quote, or one of 35' and 00;35', is malformed: the result is then 'export'
\* if the text begins with it, else the first of export, echo, set, alias
\* occurring in the text, else 'malformed'.  In full mode it returns the text.
C9_ReductionWithMalformedRule ==
    pc = "extracted" =>
        IF full_command THEN ret[1] = full_cmd
        ELSE LET first == split(full_cmd)[1]
                 numeric == Len(first) > 1 /\ isdigit(SubSeq(first, 1, Len(first) - 1))
                 malformed == endswith(first, "'")
                              /\ (numeric \/ first \in {"35'", "00;35'"})
                 found == {c \in {"export", "echo", "set", "alias"} : contains(full_cmd, c)}
             IN  ret[1] = IF ~malformed THEN first
                          ELSE IF startswith(full_cmd, "export") THEN "export"
                          ELSE IF "export" \in found THEN "export"
                          ELSE IF "echo" \in found THEN "echo"
                          ELSE IF "set" \in found THEN "set"
                          ELSE IF "alias" \in found THEN "alias"
                          ELSE "malformed"

(***************************************************************************)
(* get_command_correlations (src/freq.py 316-329).                         *)
(***************************************************************************)
\* the default of the parameter window_seconds
DefaultWindow == 300

\* the positional window: range(max(0, i-10), min(len, i+11))
PosWindow == 10

Abs(x) == IF x < 0 THEN -x ELSE x

Max2(a, b) == IF a > b THEN a ELSE b

Min2(a, b) == IF a < b THEN a ELSE b

\* insert record r into the sorted sequence q behind every record whose key
\* is not greater: the stable order
RECURSIVE InsertByTime(_, _)
InsertByTime(q, r) ==
    IF q = <<>> THEN <<r>>
    ELSE IF q[Len(q)][2] <= r[2] THEN Append(q, r)
    ELSE Append(InsertByTime(SubSeq(q, 1, Len(q) - 1), r), q[Len(q)])

\* sorted(history, key=lambda x: x[1])
RECURSIVE SortedByTime(_)
SortedByTime(h) ==
    IF h = <<>> THEN <<>>
    ELSE InsertByTime(SortedByTime(SubSeq(h, 1, Len(h) - 1)), h[Len(h)])

\* correlations[other_cmd] += 1 on a defaultdict(int)
Bump(correlations, other_cmd) ==
    IF other_cmd \in DOMAIN correlations
    THEN [correlations EXCEPT ![other_cmd] = @ + 1]
    ELSE [c \in DOMAIN correlations \cup {other_cmd} |->
             IF c = other_cmd THEN 1 ELSE correlations[c]]

\* InnerLoop with the time test "<" instead of "<="
RECURSIVE InnerLoop_StrictWindow(_, _, _, _, _, _, _)
InnerLoop_StrictWindow(sorted_history, target, window, i, j, stop, correlations) ==
    IF j >= stop THEN correlations
    ELSE LET timestamp == sorted_history[i + 1][2]
             other_cmd == sorted_history[j + 1][1]
             other_time == sorted_history[j + 1][2]
             counted == /\ i # j
                        /\ Abs(other_time - timestamp) < window
                        /\ other_cmd # target
             next == IF counted THEN Bump(correlations, other_cmd) ELSE correlations
         IN  IF DOMAIN next = DOMAIN next
             THEN InnerLoop_StrictWindow(sorted_history, target, window, i, j + 1,
                                         stop, next)
             ELSE next

\* lines 323-327: the inner loop from 0-based position j to stop - 1.  (The
\* test on next makes TLC compute the dictionary of this iteration before it
\* goes on to the next one, as the program does, instead of passing the
\* unevaluated expression down the recursion.)
RECURSIVE InnerLoop(_, _, _, _, _, _, _)
InnerLoop(sorted_history, target, window, i, j, stop, correlations) ==
    IF j >= stop THEN correlations
    ELSE LET timestamp == sorted_history[i + 1][2]
             other_cmd == sorted_history[j + 1][1]
             other_time == sorted_history[j + 1][2]
             counted == /\ i # j
                        /\ Abs(other_time - timestamp) <= window
                        /\ other_cmd # target
             next == IF counted THEN Bump(correlations, other_cmd) ELSE correlations
         IN  IF DOMAIN next = DOMAIN next
             THEN InnerLoop(sorted_history, target, window, i, j + 1, stop, next)
             ELSE next

\* lines 321-327: the outer loop from 0-based position i on
RECURSIVE OuterLoop(_, _, _, _, _)
OuterLoop(sorted_history, target, window, i, correlations) ==
    IF i >= Len(sorted_history) THEN correlations
    ELSE LET next == IF sorted_history[i + 1][1] = target
                     THEN InnerLoop(sorted_history, target, window, i,
                                    Max2(0, i - PosWindow),
                                    Min2(Len(sorted_history), i + PosWindow + 1),
                                    correlations)
                     ELSE correlations
         IN  IF DOMAIN next = DOMAIN next
             THEN OuterLoop(sorted_history, target, window, i + 1, next)
             ELSE next

get_command_correlations(h, target, window) ==
    OuterLoop(SortedByTime(h), target, window, 0, <<>>)

(***************************************************************************)
(* The correlation specification: get_command_correlations called on       *)
(* histories of up to MaxCorrLen records, evenly spaced in time, with two  *)
(* marked positions, in file order or reversed.                            *)
(***************************************************************************)
MaxCorrLen == 12

CorrGaps == {0, 30, 300, 301}

CorrWindows == {DefaultWindow, 30}

CorrCommands == {"git", "ls", "vim"}

\* n records gap seconds apart: "git" at position p1 and p2, "vim" at q, "ls" elsewhere
CorrHistory(n, gap, p1, p2, q, reversed) ==
    [k \in 1..n |->
        LET pos == IF reversed THEN n + 1 - k ELSE k
        IN  << IF pos \in {p1, p2} THEN "git" ELSE IF pos = q THEN "vim" ELSE "ls",
               1000 + pos * gap >>]

CorrHistories ==
    { CorrHistory(n, gap, p1, p2, q, reversed) :
        n \in 1..MaxCorrLen, gap \in CorrGaps, p1 \in 1..MaxCorrLen,
        p2 \in 1..MaxCorrLen, q \in {1, MaxCorrLen}, reversed \in BOOLEAN }

InitCorr ==
    /\ pc = "call"
    /\ history \in CorrHistories
    /\ target_command \in {"git", "ls"}
    /\ window_seconds \in CorrWindows
    /\ num_commands = 0
    /\ date_arg = None
    /\ shell_type = ""
    /\ file = <<>>
    /\ idx = 0
    /\ full_command = FALSE
    /\ date_filter = None
    /\ command_filter = None
    /\ now = 0
    /\ current_timestamp = None
    /\ emitted = <<>>
    /\ resolve_aliases = FALSE
    /\ aliases = <<>>
    /\ exclude_list = <<>>
    /\ cmd_history = <<>>
    /\ full_cmd = ""
    /\ ret = None

\* a call get_command_correlations(history, target_command, window_seconds)
CallCorrelations ==
    /\ pc = "call"
    /\ ret' = Some(get_command_correlations(history, target_command, window_seconds))
    /\ pc' = "correlated"
    /\ UNCHANGED <<shell_type, file, idx, full_command, date_filter, command_filter,
                   now, current_timestamp, history, emitted, resolve_aliases,
                   aliases, exclude_list, cmd_history, full_cmd, target_command,
                   window_seconds, num_commands, date_arg>>

NextCorr == CallCorrelations

SpecCorr == InitCorr /\ [][NextCorr]_vars

\* the position record k of h takes in the order by timestamp that keeps
\* records of equal timestamp in their order in h
StableRank(h, k) ==
    1 + Cardinality({m \in 1..Len(h) : h[m][2] < h[k][2] \/ (h[m][2] = h[k][2] /\ m < k)})

StablySorted(h) == [r \in 1..Len(h) |-> h[CHOOSE k \in 1..Len(h) : StableRank(h, k) = r]]

\* the number of pairs (i, j): record i is the target, j is 1 to 10 positions
\* away, record j is command c and lies within w seconds of record i
PairCount(S, target, w, c) ==
    Cardinality({ij \in (1..Len(S)) \X (1..Len(S)) :
        /\ S[ij[1]][1] = target
        /\ Abs(ij[1] - ij[2]) >= 1
        /\ Abs(ij[1] - ij[2]) <= 10
        /\ S[ij[2]][1] = c
        /\ Abs(S[ij[2]][2] - S[ij[1]][2]) <= w})

\* C7: get_command_correlations tallies, for each command c other than the
\* target, the pairs (i, j) of the stably time-sorted history with record i
\* the target, 1 <= |i - j| <= 10, record j = c and |t_j - t_i| <= w; the
\* target is never a key.
C7_CorrelationCountsPairs ==
    pc = "correlated" =>
        LET S == StablySorted(history)
            correlations == ret[1]
        IN  /\ target_command \notin DOMAIN correlations
            /\ DOMAIN correlations \subseteq CorrCommands
            /\ \A c \in CorrCommands \ {target_command} :
                   (IF c \in DOMAIN correlations THEN correlations[c] ELSE 0)
                       = PairCount(S, target_command, window_seconds, c)

\* twelve records of one timestamp, "git" last: the ten "ls" before it are
\* counted, the "vim" eleven positions away is not
C7_Witness ==
    /\ pc = "correlated"
    /\ target_command = "git"
    /\ window_seconds = DefaultWindow
    /\ history = CorrHistory(12, 0, 12, 12, 1, FALSE)
    /\ ret[1] = [c \in {"ls"} |-> 10]

(***************************************************************************)
(* The ranking of show_basic_analysis (src/freq.py 434-441):               *)
(* Counter([item[0] for item in history]).most_common(num_commands).       *)
(* A Counter is the sequence of its <<element, count>> items in the order  *)
(* the elements were first inserted.                                       *)
(***************************************************************************)
\* counter[x] += 1
CounterAdd(counts, x) ==
    IF \E k \in 1..Len(counts) : counts[k][1] = x
    THEN [k \in 1..Len(counts) |->
              IF counts[k][1] = x THEN <<x, counts[k][2] + 1>> ELSE counts[k]]
    ELSE Append(counts, <<x, 1>>)

\* Counter(items): the elements are counted from the first to the last
RECURSIVE Counter(_)
Counter(items) ==
    IF items = <<>> THEN <<>>
    ELSE CounterAdd(Counter(SubSeq(items, 1, Len(items) - 1)), items[Len(items)])

\* InsertByCount putting an item before the items of equal count
RECURSIVE InsertByCount_BeforeTies(_, _)
InsertByCount_BeforeTies(q, e) ==
    IF q = <<>> THEN <<e>>
    ELSE IF Head(q)[2] > e[2] THEN <<Head(q)>> \o InsertByCount_BeforeTies(Tail(q), e)
    ELSE <<e>> \o q

\* one step of the stable sort by count, descending: e goes after every item
\* whose count is at least its own
RECURSIVE InsertByCount(_, _)
InsertByCount(q, e) ==
    IF q = <<>> THEN <<e>>
    ELSE IF Head(q)[2] >= e[2] THEN <<Head(q)>> \o InsertByCount(Tail(q), e)
    ELSE <<e>> \o q

\* sorted(items, key=itemgetter(1), reverse=True)
RECURSIVE SortedByCount(_)
SortedByCount(counts) ==
    IF counts = <<>> THEN <<>>
    ELSE InsertByCount(SortedByCount(SubSeq(counts, 1, Len(counts) - 1)),
                       counts[Len(counts)])

\* most_common(n) = heapq.nlargest(n, items, key=itemgetter(1)): the first n
\* items of the stable descending sort, none when n <= 0
most_common(counts, n) ==
    IF n <= 0 THEN <<>>
    ELSE SubSeq(SortedByCount(counts), 1, Min2(n, Len(counts)))

\* line 439
Ranking(h, n) == most_common(Counter([k \in 1..Len(h) |-> h[k][1]]), n)

(***************************************************************************)
(* The ranking specification: one call show_basic_analysis(history,        *)
(* num_commands).                                                          *)
(***************************************************************************)
MaxRankLen == 5

MaxLimit == 3

RankCommands == {"git", "ls", "vim"}

\* the records of a history are stamped 1, 2, ... in file order
RankHistories ==
    {[k \in 1..Len(q) |-> <<q[k], k>>] : q \in SeqsUpTo(RankCommands, MaxRankLen)}

InitRank ==
    /\ pc = "rank"
    /\ history \in RankHistories
    /\ num_commands \in 0..MaxLimit
    /\ shell_type = "zsh"
    /\ file = <<>>
    /\ idx = 0
    /\ full_command = FALSE
    /\ date_filter = None
    /\ command_filter = None
    /\ now \in Clocks
    /\ current_timestamp = None
    /\ emitted = <<>>
    /\ resolve_aliases = FALSE
    /\ aliases = <<>>
    /\ exclude_list = <<>>
    /\ cmd_history = <<>>
    /\ full_cmd = ""
    /\ ret = None
    /\ target_command = ""
    /\ window_seconds = 0
    /\ date_arg = None

\* a call show_basic_analysis(history, num_commands): ret is the list the
\* loop of lines 440-441 prints, None after the return of line 437
ShowBasicAnalysis ==
    /\ pc = "rank"
    /\ ret' = IF history = <<>> THEN None ELSE Some(Ranking(history, num_commands))
    /\ pc' = "ranked"
    /\ UNCHANGED <<shell_type, file, idx, full_command, date_filter, command_filter,
                   now, current_timestamp, history, emitted, resolve_aliases,
                   aliases, exclude_list, cmd_history, full_cmd, target_command,
                   window_seconds, num_commands, date_arg>>

NextRank == ShowBasicAnalysis

SpecRank == InitRank /\ [][NextRank]_vars

\* the number of records of history with exactly the command c
CountOf(c) == Cardinality({k \in 1..Len(history) : history[k][1] = c})

\* the position of the first record of history with the command c
FirstOf(c) == Min({k \in 1..Len(history) : history[k][1] = c})

\* C11: ranking a record sequence with limit N returns at most N pairs
\* <<command, count>>, count the number of records with exactly that command,
\* ordered by count descending and, for equal counts, by the position of the
\* command's first record; every command left out has a count no greater
\* than every command returned.
C11_RankingIsTopN ==
    (pc = "ranked" /\ ret # None) =>
        LET ranked == ret[1]
            returned == {ranked[i][1] : i \in 1..Len(ranked)}
            present == {history[k][1] : k \in 1..Len(history)}
        IN  /\ Len(ranked) <= num_commands
            /\ returned \subseteq present
            /\ \A i \in 1..Len(ranked) : ranked[i][2] = CountOf(ranked[i][1])
            /\ \A i, j \in 1..Len(ranked) :
                   i < j =>
                       \/ ranked[i][2] > ranked[j][2]
                       \/ /\ ranked[i][2] = ranked[j][2]
                          /\ FirstOf(ranked[i][1]) < FirstOf(ranked[j][1])
            /\ \A c \in present \ returned :
                   \A i \in 1..Len(ranked) : CountOf(c) <= ranked[i][2]

\* two commands tie on the count and a third is cut by the limit
C11_Witness ==
    /\ pc = "ranked"
    /\ num_commands = 2
    /\ history = << <<"ls", 1>>, <<"git", 2>>, <<"vim", 3>>, <<"git", 4>>, <<"ls", 5>> >>
    /\ ret = Some(<< <<"ls", 2>>, <<"git", 2>> >>)

(***************************************************************************)
(* parse_date_filter (src/freq.py 331-367).  A call either returns a value *)
(* or lets an exception escape; the local time zone is UTC, so the        *)
(* timestamp of a local midnight is a multiple of 86400.                   *)
(***************************************************************************)
Returned(v) == <<"return", v>>

Raised(e) == <<"raise", e>>

\* s.split(sep)
RECURSIVE SplitOn(_, _)
SplitOn(s, sep) ==
    LET i == find(s, sep)
    IN  IF i = -1 THEN <<s>>
        ELSE <<Slice(s, 0, i)>> \o SplitOn(SliceFrom(s, i + Len(sep)), sep)

NonZeroDigits == {"1", "2", "3", "4", "5", "6", "7", "8", "9"}

\* the text of at most n characters that s holds from 0-based position p on
Peek(s, p, n) == Slice(s, Min2(p, Len(s)), Min2(p + n, Len(s)))

\* the length of the match of %m, (1[0-2]|0[1-9]|[1-9]), at 0-based position
\* p of s; 0 when there is none
MonthLen(s, p) ==
    LET two == Peek(s, p, 2)
    IN  IF /\ Len(two) = 2
           /\ \/ Ch(two, 1) = "1" /\ Ch(two, 2) \in {"0", "1", "2"}
              \/ Ch(two, 1) = "0" /\ Ch(two, 2) \in NonZeroDigits
        THEN 2
        ELSE IF Peek(s, p, 1) \in NonZeroDigits THEN 1 ELSE 0

\* the length of the match of %d, (3[0-1]|[1-2]\d|0[1-9]|[1-9]| [1-9])
DayLen(s, p) ==
    LET two == Peek(s, p, 2)
    IN  IF /\ Len(two) = 2
           /\ \/ Ch(two, 1) = "3" /\ Ch(two, 2) \in {"0", "1"}
              \/ Ch(two, 1) \in {"1", "2"} /\ IsDigitCh(Ch(two, 2))
              \/ Ch(two, 1) \in {"0", " "} /\ Ch(two, 2) \in NonZeroDigits
        THEN 2
        ELSE IF Peek(s, p, 1) \in NonZeroDigits THEN 1 ELSE 0

IsLeap(y) == (y % 4 = 0 /\ y % 100 # 0) \/ y % 400 = 0

DaysInMonth(y, m) ==
    IF m = 2 THEN (IF IsLeap(y) THEN 29 ELSE 28)
    ELSE IF m \in {4, 6, 9, 11} THEN 30 ELSE 31

\* datetime.datetime.strptime(s, "%Y-%m-%d"): the date <<year, month, day>>,
\* or ValueError when the text does not match the format as a whole or the
\* date does not exist
strptime(s) ==
    IF ~(isdigit(Peek(s, 0, 4)) /\ Len(Peek(s, 0, 4)) = 4 /\ Peek(s, 4, 1) = "-")
    THEN Raised("ValueError")
    ELSE LET ml == MonthLen(s, 5)
         IN  IF ml = 0 \/ Peek(s, 5 + ml, 1) # "-" THEN Raised("ValueError")
             ELSE LET dl == DayLen(s, 6 + ml)
                  IN  IF dl = 0 \/ 6 + ml + dl # Len(s) THEN Raised("ValueError")
                      ELSE LET year == int(Slice(s, 0, 4))
                               month == int(Slice(s, 5, 5 + ml))
                               day == int(strip(Slice(s, 6 + ml, 6 + ml + dl)))
                           IN  IF year < 1 \/ day > DaysInMonth(year, month)
                               THEN Raised("ValueError")
                               ELSE Returned(<<year, month, day>>)

\* the number of days from 1970-01-01 to the date
DaysFromCivil(date) ==
    LET y == IF date[2] <= 2 THEN date[1] - 1 ELSE date[1]
        era == y \div 400
        yoe == y - era * 400
        mp == (date[2] + 9) % 12
        doy == (153 * mp + 2) \div 5 + date[3] - 1
        doe == yoe * 365 + yoe \div 4 - yoe \div 100 + doy
    IN  era * 146097 + doe - 719468

SecondsPerDay == 86400

\* int(date.timestamp()) of the local midnight that begins the date
Timestamp(date) == DaysFromCivil(date) * SecondsPerDay

\* date + timedelta(days=1) is past datetime.max
NextDayOverflows(date) == date = <<9999, 12, 31>>

\* the keywords of lines 334-351 and the seconds each goes back from now
Keywords == {"1h", "hour", "24h", "day", "today", "week", "7d", "month", "30d",
             "year", "365d"}

KeywordStart(keyword, clock) ==
    IF keyword \in {"1h", "hour"} THEN clock - 3600
    ELSE IF keyword \in {"24h", "day"} THEN clock - SecondsPerDay
    ELSE IF keyword = "today" THEN clock - (clock % SecondsPerDay)
    ELSE IF keyword \in {"week", "7d"} THEN clock - 7 * SecondsPerDay
    ELSE IF keyword \in {"month", "30d"} THEN clock - 30 * SecondsPerDay
    ELSE clock - 365 * SecondsPerDay

\* lines 364-367: the ValueError is caught
InvalidDateFormat == Returned(<<None, None>>)

\* lines 354-358: the range 'start:end'
ParseRange(text) ==
    LET parts == SplitOn(text, ":")
    IN  IF Len(parts) # 2 THEN InvalidDateFormat
        ELSE LET start_date == strptime(parts[1])
                 end_date == strptime(parts[2])
             IN  IF start_date[1] = "raise" THEN InvalidDateFormat
                 ELSE IF end_date[1] = "raise" THEN InvalidDateFormat
                 ELSE IF NextDayOverflows(end_date[2]) THEN Raised("OverflowError")
                 ELSE Returned(<<Some(Timestamp(start_date[2])),
                                 Some(Timestamp(end_date[2]) + SecondsPerDay)>>)

\* lines 360-363: the single date
ParseSingleDate(text) ==
    LET date_obj == strptime(text)
    IN  IF date_obj[1] = "raise" THEN InvalidDateFormat
        ELSE IF NextDayOverflows(date_obj[2]) THEN Raised("OverflowError")
        ELSE Returned(<<Some(Timestamp(date_obj[2])),
                        Some(Timestamp(date_obj[2]) + SecondsPerDay)>>)

parse_date_filter(text, clock) ==
    IF text \in Keywords THEN Returned(<<Some(KeywordStart(text, clock)), None>>)
    ELSE IF contains(text, ":") THEN ParseRange(text)
    ELSE ParseSingleDate(text)

(***************************************************************************)
(* The dated-run specification: main from the test of args.date (line 614) *)
(* through parse_history to run_analysis.                                  *)
(***************************************************************************)
MaxDateLines == 2

ValidDateExprs ==
    {"1970-01-02", "1970-1-2", "1969-12-31", "2023-11-13", "2023-11-14",
     "2024-02-29", "9999-12-31"}

ValidRangeExprs ==
    {"1970-01-02:1970-01-03", "2023-11-13:2023-11-14", "1969-12-30:1969-12-31",
     "2023-11-14:2023-11-13"}

InvalidDateExprs ==
    {"", " ", "yesterday", "Today", "2023-02-29", "2023-13-01", "2023-11-14 ",
     "14-11-2023", "1970-01-02:", "1970-01-02:tomorrow",
     "1970-01-02:1970-01-03:1970-01-04"}

\* args.date: absent, or the text given with -d
DateArgs ==
    {None} \cup {Some(s) : s \in Keywords \cup ValidDateExprs \cup ValidRangeExprs
                                 \cup InvalidDateExprs}

DateZshLines == {ZshLine("1700000000", "0", "ls -la"), ZshLine("0000172800", "5", "git status")}

DateBashLines == {"ls -la", "git status", BashMarker("172800"), ""}

\* 2023-11-14 22:13:20 UTC and the midnight before it
DateClocks == {1700000000, 1699920000}

\* the seconds that pass between the clock reading of parse_date_filter
\* (line 332) and the clock readings of the parser (line 182)
ClockSteps == {0, 1, 3600}

InitDate ==
    /\ pc = "start"
    /\ date_arg \in DateArgs
    /\ shell_type \in {"zsh", "bash"}
    /\ file \in IF shell_type = "zsh" THEN SeqsUpTo(DateZshLines, MaxDateLines)
                ELSE SeqsUpTo(DateBashLines, MaxDateLines)
    /\ idx = 0
    /\ command_filter \in {None, Some("ls")}
    /\ full_command = TruthyStr(command_filter)
    /\ date_filter = None
    /\ now \in DateClocks
    /\ current_timestamp = None
    /\ history = <<>>
    /\ emitted = <<>>
    /\ resolve_aliases = FALSE
    /\ aliases = <<>>
    /\ exclude_list = <<>>
    /\ cmd_history = <<>>
    /\ full_cmd = ""
    /\ ret = None
    /\ target_command = ""
    /\ window_seconds = 0
    /\ num_commands = 0

\* lines 611-617: "if args.date:" calls parse_date_filter, and main returns
\* when both bounds are None; an exception parse_date_filter lets escape ends
\* the process.  The clock goes on while main moves to parse_history.
ParseDateArg ==
    /\ pc = "start"
    /\ IF TruthyStr(date_arg)
       THEN LET outcome == parse_date_filter(date_arg[1], now)
            IN  IF outcome[1] = "raise"
                THEN pc' = "crashed" /\ date_filter' = date_filter
                ELSE /\ date_filter' = outcome[2]
                     /\ pc' = IF outcome[2] = <<None, None>> THEN "rejected" ELSE "parse"
       ELSE pc' = "parse" /\ date_filter' = None
    /\ \E step \in ClockSteps : now' = now + step
    /\ UNCHANGED <<shell_type, file, idx, full_command, command_filter,
                   current_timestamp, history, emitted, resolve_aliases, aliases,
                   exclude_list, cmd_history, full_cmd, ret, target_command,
                   window_seconds, num_commands, date_arg>>

NextDate == ParseDateArg \/ Parse \/ ResolveAliases \/ Exclude \/ RunAnalysis

SpecDate == InitDate /\ [][NextDate]_vars

\* the text is a date strptime accepts / a range of two such dates
ValidDate(text) == strptime(text)[1] = "return"

ValidRange(text) ==
    LET parts == SplitOn(text, ":")
    IN  Len(parts) = 2 /\ ValidDate(parts[1]) /\ ValidDate(parts[2])

InvalidDateExpr(text) == text \notin Keywords /\ ~ValidDate(text) /\ ~ValidRange(text)

\* C12: for every date expression that is no relative keyword, no valid
\* date and no valid range (more than one ':' included), parse_date_filter
\* returns (None, None) with no exception escaping, and main returns before
\* it parses the history file: no parsing, filtering or analysis step runs.
C12_InvalidDateStopsRun ==
    (date_arg # None /\ InvalidDateExpr(date_arg[1])) =>
        /\ \A clock \in DateClocks :
               parse_date_filter(date_arg[1], clock) = Returned(<<None, None>>)
        /\ pc \in {"start", "rejected"}
        /\ history = <<>>
        /\ cmd_history = <<>>

\* the bash history has no marker line
NoMarkerLines == shell_type = "bash" /\ \A k \in 1..Len(file) : ~IsMarker(strip(file[k]))

\* C15: in a bash history without marker lines every command line is stamped
\* with the wall clock read while parsing; so, the clock not going back
\* between parse_date_filter and the parser, a relative date expression
\* removes none of its records, and an absolute date or range whose end bound
\* lies before the time of parsing removes all of them, whatever the commands.
C15_UnmarkedBashAllOrNothing ==
    (NoMarkerLines /\ date_arg # None /\ pc \in {"returned", "loaded"}) =>
        LET unfiltered == parse_history(file, full_command, shell_type, None,
                                        command_filter, now)
        IN  /\ \A k \in 1..Len(unfiltered) : unfiltered[k][2] = now
            /\ date_arg[1] \in Keywords => history = unfiltered
            /\ ( /\ ValidDate(date_arg[1]) \/ ValidRange(date_arg[1])
                 /\ date_filter[2][1] < now ) => history = <<>>

=============================================================================
